---- MODULE Spec2Model ----
(***************************************************************************)
(* hq-go-retrier: the counter-based retry loop (RetryWithData), the        *)
(* backoff strategies it calls and the jitter functions those call.        *)
(*                                                                         *)
(* Durations are signed integers of DurationBits bits (time.Duration is an *)
(* int64 in the source; the word is scaled down so that the arithmetic,    *)
(* wrap-around included, stays enumerable).  One unit of time is one Tick. *)
(***************************************************************************)
EXTENDS Integers, Sequences, FiniteSets, TLC

\* ------------------------------------------------------------------ bounds
DurationBits == 5      \* width of the scaled time.Duration word
MaxRetryMax  == 3      \* retryMax is drawn from 0..MaxRetryMax
MaxAttempt   == 5      \* cap on invocations of one call (retryMax = 0 is unbounded)
MaxWait      == 2      \* retryWaitMin, retryWaitMax are drawn from 0..MaxWait (+1 for max)
MaxTimeout   == 3      \* a WithTimeout context expires after 0..MaxTimeout ticks
MaxBackoffAttempt == 6 \* a backoff strategy is called with attempt in -1..MaxBackoffAttempt
MaxOptions   == 3      \* a call is given at most MaxOptions options

\* ------------------------------------------------- time.Duration arithmetic
RECURSIVE Pow2(_)
Pow2(n) == IF n <= 0 THEN 1 ELSE 2 * Pow2(n - 1)

MaxInt64 == Pow2(DurationBits - 1) - 1
MinInt64 == -Pow2(DurationBits - 1)

\* two's-complement wrap-around of Go's signed integer arithmetic
Wrap(x) == ((x - MinInt64) % Pow2(DurationBits)) + MinInt64

\* Go's integer division truncates toward zero
GoDiv(a, b) == IF a >= 0 THEN a \div b ELSE -((-a) \div b)

\* ------------------------------------------------------------------ jitter
\* the values rand.Int(rand.Reader, max) delivers for max > 0: [0, max)
randInt(max) == 0 .. max - 1

\* the draw when the random source is known to work (fails = FALSE) or to
\* fail (fails = TRUE): a failing source gives the bound itself
getRandomDurationWhen(maxDuration, fails) ==
    IF maxDuration <= 0 THEN {0}
    ELSE IF fails THEN {maxDuration}
    ELSE randInt(maxDuration)

\* every value the draw can take, the random source working or not
getRandomDuration(maxDuration) ==
    getRandomDurationWhen(maxDuration, FALSE) \cup getRandomDurationWhen(maxDuration, TRUE)

\* equal jitter without its midpoint: the draw over the whole backoff
EqualWhenWithoutMidpoint(backoff, fails) == getRandomDurationWhen(backoff, fails)

EqualWhen(backoff, fails) ==
    LET midpoint == GoDiv(backoff, 2)
    IN  { Wrap(midpoint + r) : r \in getRandomDurationWhen(midpoint, fails) }

Equal(backoff) == EqualWhen(backoff, FALSE) \cup EqualWhen(backoff, TRUE)

\* full jitter that never returns 0
FullWhenFromOne(backoff, fails) ==
    { r + 1 : r \in getRandomDurationWhen(backoff, fails) }

FullWhen(backoff, fails) == getRandomDurationWhen(backoff, fails)

Full(backoff) == FullWhen(backoff, FALSE) \cup FullWhen(backoff, TRUE)

DecorrelatedWhen(minDelay, maxDelay, previous, fails) ==
    LET prev == IF previous = 0 THEN minDelay ELSE previous
    IN  { LET jitter == Wrap(r + minDelay)
          IN  IF jitter > maxDelay THEN maxDelay ELSE jitter
          : r \in getRandomDurationWhen(Wrap(prev * 3), fails) }

Decorrelated(minDelay, maxDelay, previous) ==
    DecorrelatedWhen(minDelay, maxDelay, previous, FALSE)
    \cup DecorrelatedWhen(minDelay, maxDelay, previous, TRUE)

\* ----------------------------------------------------------------- backoff
\* the doubling loop shared by the four strategies: `for range n` starting
\* from value b; capped is TRUE when the overflow guard returned early
RECURSIVE Doubling(_, _)
Doubling(b, n) ==
    IF n <= 0 THEN [capped |-> FALSE, value |-> b]
    ELSE IF b > GoDiv(MaxInt64, 2) THEN [capped |-> TRUE, value |-> b]
    ELSE Doubling(Wrap(b * 2), n - 1)

Clamp(backoff, maxDelay) == IF backoff > maxDelay THEN maxDelay ELSE backoff

\* the strategy without the overflow guard of its doubling loop
ExponentialUnguardedDoubling(minDelay, maxDelay, attempt) ==
    IF minDelay <= 0 \/ maxDelay <= 0 \/ attempt < 0 THEN {0}
    ELSE IF maxDelay > minDelay /\ attempt < 1 THEN {minDelay}
    ELSE {Clamp(Wrap(minDelay * Pow2(attempt)), maxDelay)}

\* the strategy without the test of attempt in its first guard
ExponentialAttemptUnguarded(minDelay, maxDelay, attempt) ==
    IF minDelay <= 0 \/ maxDelay <= 0 THEN {0}
    ELSE IF maxDelay > minDelay /\ attempt < 1 THEN {minDelay}
    ELSE LET d == Doubling(minDelay, attempt)
         IN  IF d.capped THEN {maxDelay} ELSE {Clamp(d.value, maxDelay)}

\* the strategy growing by minDelay per attempt instead of doubling
ExponentialLinear(minDelay, maxDelay, attempt) ==
    IF minDelay <= 0 \/ maxDelay <= 0 \/ attempt < 0 THEN {0}
    ELSE IF maxDelay > minDelay /\ attempt < 1 THEN {minDelay}
    ELSE {Clamp(Wrap(minDelay * (attempt + 1)), maxDelay)}

Exponential(minDelay, maxDelay, attempt) ==
    IF minDelay <= 0 \/ maxDelay <= 0 \/ attempt < 0 THEN {0}
    ELSE IF maxDelay > minDelay /\ attempt < 1 THEN {minDelay}
    ELSE LET d == Doubling(minDelay, attempt)
         IN  IF d.capped THEN {maxDelay} ELSE {Clamp(d.value, maxDelay)}

ExponentialWithEqualJitterWhen(minDelay, maxDelay, attempt, fails) ==
    IF minDelay <= 0 \/ maxDelay <= 0 \/ attempt < 0 THEN {0}
    ELSE IF maxDelay > minDelay /\ attempt < 1 THEN {minDelay}
    ELSE LET d == Doubling(minDelay, attempt)
         IN  IF d.capped THEN {maxDelay}
             ELSE { Clamp(Wrap(d.value + j), maxDelay) : j \in EqualWhen(d.value, fails) }

ExponentialWithEqualJitter(minDelay, maxDelay, attempt) ==
    ExponentialWithEqualJitterWhen(minDelay, maxDelay, attempt, FALSE)
    \cup ExponentialWithEqualJitterWhen(minDelay, maxDelay, attempt, TRUE)

ExponentialWithFullJitterWhen(minDelay, maxDelay, attempt, fails) ==
    IF minDelay <= 0 \/ maxDelay <= 0 \/ attempt < 0 THEN {0}
    ELSE IF maxDelay > minDelay /\ attempt < 1 THEN {minDelay}
    ELSE LET d == Doubling(minDelay, attempt)
         IN  IF d.capped THEN {maxDelay}
             ELSE { Clamp(Wrap(d.value + j), maxDelay) : j \in FullWhen(d.value, fails) }

ExponentialWithFullJitter(minDelay, maxDelay, attempt) ==
    ExponentialWithFullJitterWhen(minDelay, maxDelay, attempt, FALSE)
    \cup ExponentialWithFullJitterWhen(minDelay, maxDelay, attempt, TRUE)

ExponentialWithDecorrelatedJitterWhen(minDelay, maxDelay, attempt, fails) ==
    IF minDelay <= 0 \/ maxDelay <= 0 \/ attempt < 0 THEN {0}
    ELSE IF maxDelay > minDelay /\ attempt < 1 THEN {minDelay}
    ELSE LET d == Doubling(minDelay, attempt)
             p == IF attempt > 0 THEN Doubling(minDelay, attempt - 1)
                  ELSE [capped |-> FALSE, value |-> minDelay]
             previous == IF p.capped THEN maxDelay ELSE p.value
         IN  IF d.capped THEN {maxDelay}
             ELSE { Clamp(Wrap(d.value + j), maxDelay)
                    : j \in DecorrelatedWhen(minDelay, maxDelay, previous, fails) }

ExponentialWithDecorrelatedJitter(minDelay, maxDelay, attempt) ==
    ExponentialWithDecorrelatedJitterWhen(minDelay, maxDelay, attempt, FALSE)
    \cup ExponentialWithDecorrelatedJitterWhen(minDelay, maxDelay, attempt, TRUE)

Strategies == {"Exponential", "ExponentialWithEqualJitter",
               "ExponentialWithFullJitter", "ExponentialWithDecorrelatedJitter"}

\* the strategy called with the number of failures before this one
retryBackoffZeroBased(strategy, minDelay, maxDelay, attempt) ==
    CASE strategy = "Exponential" -> Exponential(minDelay, maxDelay, attempt - 1)
      [] strategy = "ExponentialWithEqualJitter" ->
            ExponentialWithEqualJitter(minDelay, maxDelay, attempt - 1)
      [] strategy = "ExponentialWithFullJitter" ->
            ExponentialWithFullJitter(minDelay, maxDelay, attempt - 1)
      [] OTHER -> ExponentialWithDecorrelatedJitter(minDelay, maxDelay, attempt - 1)

\* cfg.retryBackoff(minDelay, maxDelay, attempt): the delays the configured
\* strategy can return
retryBackoff(strategy, minDelay, maxDelay, attempt) ==
    CASE strategy = "Exponential" -> Exponential(minDelay, maxDelay, attempt)
      [] strategy = "ExponentialWithEqualJitter" ->
            ExponentialWithEqualJitter(minDelay, maxDelay, attempt)
      [] strategy = "ExponentialWithFullJitter" ->
            ExponentialWithFullJitter(minDelay, maxDelay, attempt)
      [] OTHER -> ExponentialWithDecorrelatedJitter(minDelay, maxDelay, attempt)

\* the same call with the state of the random source known
retryBackoffWhen(strategy, minDelay, maxDelay, attempt, fails) ==
    CASE strategy = "Exponential" -> Exponential(minDelay, maxDelay, attempt)
      [] strategy = "ExponentialWithEqualJitter" ->
            ExponentialWithEqualJitterWhen(minDelay, maxDelay, attempt, fails)
      [] strategy = "ExponentialWithFullJitter" ->
            ExponentialWithFullJitterWhen(minDelay, maxDelay, attempt, fails)
      [] OTHER -> ExponentialWithDecorrelatedJitterWhen(minDelay, maxDelay, attempt, fails)

\* ------------------------------------------------------------------ errors
\* an error value is a pair: where it comes from, and which invocation
NilErr           == <<"nil", 0>>
Canceled         == <<"context.Canceled", 0>>
DeadlineExceeded == <<"context.DeadlineExceeded", 0>>
CustomCause      == <<"cause", 0>>
OpErr(n)         == <<"operation", n>>

ZeroResult == <<"zero", 0>>
EmptyData  == <<"struct{}", 0>>

\* ------------------------------------------------------------------- state
VARIABLES
    cfg,        \* configuration: retryMax, retryWaitMin, retryWaitMax, retryBackoff, notifier
    ctxKind,    \* how the caller built ctx
    ctxErr,     \* ctx.Err(): NilErr until ctx.Done() is closed
    ctxCause,   \* context.Cause(ctx)
    timeout,    \* the duration given to WithTimeout, in ticks (-1: no deadline)
    ttl,        \* ticks left until the deadline of a WithTimeout context
    doneAtCall, \* ctx.Done() was already closed when RetryWithData was called
    pc,         \* Ready | Invoking | AwaitingBackoff | Succeeded | Exhausted | Canceled | Panicked
    attempt,    \* the loop counter of RetryWithData
    result,     \* named result of RetryWithData
    err,        \* named result of RetryWithData
    remaining,  \* ticks until the ticker of the current wait delivers
    tickerC,    \* a value is ready on ticker.C
    log,        \* what the call has done so far, in order
    args,       \* the function that was called, and its arguments
    out         \* what that function has returned: empty until it returns

vars == <<cfg, ctxKind, ctxErr, ctxCause, timeout, ttl, doneAtCall, pc, attempt,
          result, err, remaining, tickerC, log, args, out>>

\* the data the loop receives from invocation n of its operation
OpData(n) == IF args.fn = "Retry" THEN EmptyData ELSE <<"data", n>>

ctxVars == <<ctxKind, ctxErr, ctxCause, timeout, ttl>>

Terminal == {"Succeeded", "Exhausted", "Canceled", "Panicked"}

Event(ev, n, e, d) == [ev |-> ev, attempt |-> n, err |-> e, d |-> d]

configuration ==
    [retryMax     : 0 .. MaxRetryMax,
     retryWaitMin : 0 .. MaxWait,
     retryWaitMax : 0 .. MaxWait + 1,
     retryBackoff : Strategies,
     notifier     : BOOLEAN]

CtxKinds == {"Background", "WithCancel", "WithCancelCause", "WithTimeout"}

EntryPoints == {"Retry", "RetryWithData"}

Init ==
    /\ args \in [fn : EntryPoints]
    /\ out = <<>>
    /\ cfg \in configuration
    /\ ctxKind \in CtxKinds
    /\ timeout \in IF ctxKind = "WithTimeout" THEN 0 .. MaxTimeout ELSE {-1}
    /\ ttl = timeout
    /\ ctxErr \in CASE ctxKind = "Background"  -> {NilErr}
                    [] ctxKind = "WithTimeout" ->
                          IF ttl = 0 THEN {DeadlineExceeded} ELSE {NilErr}
                    [] OTHER -> {NilErr, Canceled}
    /\ ctxCause = IF ctxErr = Canceled /\ ctxKind = "WithCancelCause"
                  THEN CustomCause ELSE ctxErr
    /\ doneAtCall = (ctxErr # NilErr)
    /\ pc = "Ready"
    /\ attempt = 1
    /\ result = ZeroResult
    /\ err = NilErr
    /\ remaining = 0
    /\ tickerC = FALSE
    /\ log = <<>>

\* ------------------------------------------------------------- environment
\* the caller's cancel function runs
Cancel ==
    /\ pc \notin Terminal
    /\ ctxKind # "Background"
    /\ ctxErr = NilErr
    /\ ctxErr' = Canceled
    /\ ctxCause' = IF ctxKind = "WithCancelCause" THEN CustomCause ELSE Canceled
    /\ UNCHANGED <<cfg, ctxKind, timeout, ttl, doneAtCall, pc, attempt, result,
                   err, remaining, tickerC, log, args, out>>

\* one unit of time passes: the deadline and the running ticker come closer
Tick ==
    /\ pc \notin Terminal
    /\ \/ ttl > 0 /\ ctxErr = NilErr
       \/ pc = "AwaitingBackoff" /\ remaining > 0
    /\ IF ttl > 0 /\ ctxErr = NilErr
       THEN /\ ttl' = ttl - 1
            /\ ctxErr' = IF ttl = 1 THEN DeadlineExceeded ELSE ctxErr
            /\ ctxCause' = IF ttl = 1 THEN DeadlineExceeded ELSE ctxCause
       ELSE UNCHANGED <<ttl, ctxErr, ctxCause>>
    /\ IF pc = "AwaitingBackoff" /\ remaining > 0
       THEN /\ remaining' = remaining - 1
            /\ tickerC' = (tickerC \/ remaining = 1)
       ELSE UNCHANGED <<remaining, tickerC>>
    /\ UNCHANGED <<cfg, ctxKind, timeout, doneAtCall, pc, attempt, result, err, log,
                   args, out>>

\* ----------------------------------------------------------- RetryWithData
\* the first iteration entered without looking at the signal
doneAtCheckLater == ctxErr # NilErr /\ attempt > 1

\* the signal looked at before the first invocation only
doneAtCheckFirstOnly == ctxErr # NilErr /\ attempt = 1

\* case <-ctx.Done() of the select at the top of the loop body is ready
doneAtCheck == ctxErr # NilErr

\* the case returns without assigning the signal's error
checkErrKept == err

\* the error assigned when that case is taken
checkErr == ctxErr

\* top of the loop body: the select with a default case
Check ==
    /\ pc = "Ready"
    /\ IF doneAtCheck
       THEN /\ err' = checkErr
            /\ pc' = "Canceled"
            /\ log' = Append(log, Event("canceled", attempt, checkErr, 0))
       ELSE /\ attempt <= MaxAttempt
            /\ pc' = "Invoking"
            /\ log' = Append(log, Event("invoke", attempt, NilErr, 0))
            /\ UNCHANGED err
    /\ UNCHANGED <<cfg, ctxVars, doneAtCall, attempt, result, remaining, tickerC,
                   args, out>>

\* the budget test with the comparison off by one, in either direction
budgetSpentLate(c, n)  == c.retryMax > 0 /\ n > c.retryMax
budgetSpentEarly(c, n) == c.retryMax > 0 /\ n + 1 >= c.retryMax

\* the budget test after a failed invocation
budgetSpent(c, n) == c.retryMax > 0 /\ n >= c.retryMax

\* a notifier that starts the next attempt at once
afterFailureNotifierSkipsWait(e, b) ==
    <<Event("backoff", attempt, NilErr, b)>>
    \o (IF cfg.notifier THEN <<Event("notify", attempt, e, b)>>
        ELSE IF b > 0 THEN <<Event("wait", attempt, NilErr, b)>> ELSE <<>>)

\* the notifier left out
afterFailureSilent(e, b) ==
    <<Event("backoff", attempt, NilErr, b)>>
    \o (IF b > 0 THEN <<Event("wait", attempt, NilErr, b)>> ELSE <<>>)

\* the notifier called once the ticker is already running
afterFailureNotifyLate(e, b) ==
    <<Event("backoff", attempt, NilErr, b)>>
    \o (IF b > 0 THEN <<Event("wait", attempt, NilErr, b)>> ELSE <<>>)
    \o (IF cfg.notifier THEN <<Event("notify", attempt, e, b)>> ELSE <<>>)

\* what follows a failure that leaves budget: backoff, notifier, NewTicker
afterFailure(e, b) ==
    <<Event("backoff", attempt, NilErr, b)>>
    \o (IF cfg.notifier THEN <<Event("notify", attempt, e, b)>> ELSE <<>>)
    \o (IF b > 0 THEN <<Event("wait", attempt, NilErr, b)>> ELSE <<>>)

\* a wrapper that drops the error of the operation it wraps
withEmptyDataNoError(e) == <<EmptyData, NilErr>>

\* Operation.withEmptyData: what the wrapped operation returns when the
\* Operation it wraps returns e
withEmptyData(e) == <<EmptyData, e>>

\* operation() returns; the loop acts on its error up to time.NewTicker(b)
OperationReturns ==
    /\ pc = "Invoking"
    /\ \E ok \in BOOLEAN :
         LET o == IF ok THEN NilErr ELSE OpErr(attempt)
             r == IF args.fn = "Retry" THEN withEmptyData(o)
                  ELSE <<OpData(attempt), o>>
             e == r[2]
             returned ==
                 log
                 \o (IF args.fn = "Retry" THEN <<Event("op", attempt, o, 0)>> ELSE <<>>)
                 \o <<Event("return", attempt, e, 0)>>
         IN  /\ result' = r[1]
             /\ err' = e
             /\ IF ok
                THEN /\ pc' = "Succeeded"
                     /\ log' = returned
                     /\ UNCHANGED <<remaining, tickerC>>
                ELSE IF budgetSpent(cfg, attempt)
                THEN /\ pc' = "Exhausted"
                     /\ log' = returned
                     /\ UNCHANGED <<remaining, tickerC>>
                ELSE \E b \in retryBackoff(cfg.retryBackoff, cfg.retryWaitMin,
                                           cfg.retryWaitMax, attempt) :
                       /\ log' = returned \o afterFailure(e, b)
                       /\ pc' = IF b > 0 THEN "AwaitingBackoff" ELSE "Panicked"
                       /\ remaining' = IF b > 0 THEN b ELSE remaining
                       /\ tickerC' = FALSE
    /\ UNCHANGED <<cfg, ctxVars, doneAtCall, attempt, args, out>>

\* a select that does not wait for the tick
tickerReadyAtOnce == TRUE

\* case <-ticker.C of the select after NewTicker is ready
tickerReady == tickerC

\* case <-ctx.Done() of that select is ready
doneAtWait == ctxErr # NilErr

\* the wait is cut short without assigning the signal's reason
waitErrKept == err

\* the error assigned when the wait is cut short
waitErr == ctxCause

\* the select on ticker.C and ctx.Done()
WaitSelect ==
    /\ pc = "AwaitingBackoff"
    /\ \/ /\ tickerReady
          /\ tickerC' = FALSE
          /\ remaining' = 0
          /\ attempt' = attempt + 1
          /\ pc' = "Ready"
          /\ log' = Append(log, Event("elapsed", attempt, NilErr, remaining))
          /\ UNCHANGED err
       \/ /\ doneAtWait
          /\ tickerC' = FALSE
          /\ remaining' = 0
          /\ err' = waitErr
          /\ pc' = "Canceled"
          /\ log' = Append(log, Event("canceled", attempt, waitErr, remaining))
          /\ UNCHANGED attempt
    /\ UNCHANGED <<cfg, ctxVars, doneAtCall, result, args, out>>

\* Retry returning something else than the error of the loop
retryReturnsNil(r, e) == <<NilErr>>

\* what the entry point hands to its caller: Retry drops the result
retryReturns(r, e) == <<e>>

\* the return statement of the entry point that was called
Return ==
    /\ pc \in {"Succeeded", "Exhausted", "Canceled"}
    /\ args.fn \in EntryPoints
    /\ out = <<>>
    /\ out' = IF args.fn = "Retry" THEN retryReturns(result, err)
              ELSE <<result, err>>
    /\ UNCHANGED <<cfg, ctxVars, doneAtCall, pc, attempt, result, err, remaining,
                   tickerC, log, args>>

Next == Cancel \/ Tick \/ Check \/ OperationReturns \/ WaitSelect \/ Return

Spec == Init /\ [][Next]_vars

\* ------------------------------------------------- reading the call's log
Indices(ev)  == { i \in DOMAIN log : log[i].ev = ev }
Count(ev)    == Cardinality(Indices(ev))
Invocations  == Count("invoke")
Returns      == SelectSeq(log, LAMBDA e : e.ev = "return")
Failures     == Cardinality({ i \in Indices("return") : log[i].err # NilErr })
AllFailed    == Failures = Len(Returns)
Returned     == pc \in {"Succeeded", "Exhausted", "Canceled"}

\* ------------------------------------------------------------------ claims

C3_CanceledBeforeFirstAttempt ==
    doneAtCall =>
        /\ Invocations = 0
        /\ Count("notify") = 0
        /\ Count("backoff") = 0
        /\ pc \in {"Ready", "Canceled"}
        /\ pc = "Canceled" => (err = ctxErr /\ err # NilErr)

C3_Witness ==
    /\ doneAtCall /\ pc = "Canceled" /\ err = Canceled /\ cfg.notifier
    /\ cfg.retryMax = 0

SumWaits == LET RECURSIVE Sum(_)
                Sum(i) == IF i = 0 THEN 0
                          ELSE Sum(i - 1) + (IF log[i].ev = "wait" THEN log[i].d ELSE 0)
            IN  Sum(Len(log))

\* the delays Exponential() yields for the failures 1 .. n, added up
RECURSIVE CumulativeExponential(_, _)
CumulativeExponential(c, n) ==
    IF n <= 0 THEN 0
    ELSE CumulativeExponential(c, n - 1)
         + (CHOOSE b \in Exponential(c.retryWaitMin, c.retryWaitMax, n) : TRUE)

\* C4: once the signal has fired while the loop is in its delay wait (or is
\* about to re-check the signal after it), no further invocation starts and
\* the loop can only move on to return the cancellation reason; an exhausted
\* call under a deadline has waited no longer than the deadline allows; and
\* an always-failing operation under Exponential() with a deadline shorter
\* than the cumulative backoff returns deadline-exceeded after fewer than
\* retryMax invocations.
C4_StepAfterCancel ==
    (ctxErr # NilErr /\ pc \in {"AwaitingBackoff", "Ready"}) =>
        /\ Invocations' = Invocations
        /\ pc' \in {pc, "Ready", "Canceled"}
        /\ pc = "Ready" => pc' \in {"Ready", "Canceled"}
        /\ pc' = "Canceled" =>
             /\ err' \in {ctxErr, ctxCause}
             /\ err' # NilErr
             /\ (~tickerC /\ pc = "AwaitingBackoff") => err' = ctxCause

C4_DeadlineState ==
    /\ (pc = "Exhausted" /\ ctxKind = "WithTimeout" /\ cfg.retryMax > 1) =>
          SumWaits < timeout
    /\ ( /\ Returned /\ AllFailed /\ ctxKind = "WithTimeout"
         /\ cfg.retryMax >= 1 /\ cfg.retryBackoff = "Exponential"
         /\ ctxErr # Canceled
         /\ timeout < CumulativeExponential(cfg, cfg.retryMax - 1) ) =>
          /\ pc = "Canceled"
          /\ err = DeadlineExceeded
          /\ Invocations < cfg.retryMax

C4_CancelDuringWait == [][C4_StepAfterCancel]_vars /\ []C4_DeadlineState

C4_Witness ==
    /\ pc = "Canceled" /\ ctxKind = "WithTimeout" /\ err = DeadlineExceeded
    /\ cfg.retryMax = 3 /\ Invocations = 2 /\ AllFailed
    /\ log[Len(log)].d > 0
    /\ cfg.retryBackoff = "Exponential"
    /\ timeout < CumulativeExponential(cfg, cfg.retryMax - 1)

\* C5: a call that returns has a nil error exactly when its last operation
\* invocation returned a nil error, which is the terminal state Succeeded;
\* Exhausted and Canceled carry a non-nil error.
C5_NilErrorOnlyOnSuccess ==
    Returned =>
        /\ (err = NilErr) <=>
              (Len(Returns) > 0 /\ Returns[Len(Returns)].err = NilErr)
        /\ (err = NilErr) <=> (pc = "Succeeded")
        /\ pc \in {"Exhausted", "Canceled"} => err # NilErr

C5_Witness ==
    /\ pc = "Canceled" /\ err = CustomCause /\ Failures = 1
    /\ cfg.retryBackoff = "ExponentialWithFullJitter"

\* C6: attempts are strictly sequential: invocation n+1 starts only right
\* after the wait of invocation n has delivered its tick with nothing of the
\* delay left, that wait was started after invocation n returned an error,
\* and while an invocation is in flight no ticker is running.
C6_Sequential ==
    /\ \A i \in Indices("invoke") :
         IF log[i].attempt = 1 THEN i = 1
         ELSE /\ i > 3
              /\ log[i - 1].ev = "elapsed"
              /\ log[i - 1].attempt = log[i].attempt - 1
              /\ log[i - 1].d = 0
              /\ \E j \in 1 .. (i - 2) :
                   /\ log[j].ev = "wait"
                   /\ log[j].attempt = log[i].attempt - 1
                   /\ log[j].d > 0
                   /\ \E k \in 1 .. (j - 1) :
                        /\ log[k].ev = "return"
                        /\ log[k].attempt = log[i].attempt - 1
                        /\ log[k].err # NilErr
    /\ \A i, j \in Indices("invoke") :
         i < j => \E k \in (i + 1) .. (j - 1) :
                     log[k].ev = "return" /\ log[k].attempt = log[i].attempt
    /\ pc = "Invoking" =>
         /\ ~tickerC /\ remaining = 0
         /\ log[Len(log)].ev = "invoke" /\ log[Len(log)].attempt = attempt

C6_Witness ==
    /\ pc = "Invoking" /\ attempt = 3 /\ Invocations = 3 /\ Count("elapsed") = 2

\* C7: every notifier call comes directly after the backoff computed for an
\* invocation that returned an error, carries that error, and precedes the
\* wait of that failure: no wait of the same attempt is started or delivered
\* before it, it is never the first event and never follows a success.
C7_NotifierOrder ==
    \A i \in Indices("notify") :
        /\ cfg.notifier
        /\ i >= 4
        /\ log[i - 2].ev = "return"
        /\ log[i - 2].attempt = log[i].attempt
        /\ log[i - 2].err # NilErr
        /\ log[i - 2].err = log[i].err
        /\ log[i - 1].ev = "backoff" /\ log[i - 1].attempt = log[i].attempt
        /\ \A j \in 1 .. (i - 1) :
             ~(log[j].ev \in {"wait", "elapsed"} /\ log[j].attempt = log[i].attempt)
        /\ \A j \in 1 .. (i - 1) : ~(log[j].ev = "return" /\ log[j].err = NilErr)
        /\ i < Len(log) => (log[i + 1].ev = "wait" /\ log[i + 1].attempt = log[i].attempt)

C7_Witness ==
    /\ cfg.notifier /\ Count("notify") = 2 /\ Count("wait") = 2
    /\ pc = "AwaitingBackoff"

\* the failed invocation recorded at log[i] is followed by exactly one
\* notifier call, which carries its error and the delay computed for it
NotifiedOnce(i) ==
    /\ Len(log) >= i + 2
    /\ log[i + 1].ev = "backoff" /\ log[i + 1].attempt = log[i].attempt
    /\ log[i + 2].ev = "notify" /\ log[i + 2].attempt = log[i].attempt
    /\ log[i + 2].err = log[i].err
    /\ log[i + 2].d = log[i + 1].d
    /\ log[i + 1].d \in retryBackoff(cfg.retryBackoff, cfg.retryWaitMin,
                                     cfg.retryWaitMax, log[i].attempt)
    /\ Cardinality({ j \in Indices("notify") : log[j].attempt = log[i].attempt }) = 1

FailedReturns == { i \in Indices("return") : log[i].err # NilErr }

\* C8 as stated: with a notifier configured, every invocation that returns
\* an error is followed by exactly one notifier call carrying that error and
\* the delay computed for it.
C8_NotifiedAfterEachFailure ==
    cfg.notifier => \A i \in FailedReturns : NotifiedOnce(i)

\* C8 amended: with a notifier configured, every invocation that returns an
\* error and leaves attempt budget (retryMax = 0, or fewer than retryMax
\* attempts made) is followed by exactly one notifier call carrying that
\* error and the delay computed for it; the failure that spends the budget
\* is followed by no notifier call.
C8_NotifiedAfterEachRetriedFailure ==
    cfg.notifier =>
        \A i \in FailedReturns :
            IF cfg.retryMax > 0 /\ log[i].attempt >= cfg.retryMax
            THEN { j \in Indices("notify") : log[j].attempt = log[i].attempt } = {}
            ELSE NotifiedOnce(i)

C8_Witness ==
    /\ cfg.notifier /\ pc = "Exhausted" /\ cfg.retryMax = 3
    /\ Count("notify") = 2 /\ Failures = 3

\* C9 as stated: with retryMax = 0 only the initial attempt is made: the
\* operation is invoked at most once, and a call that returns after an
\* always-failing operation returns the first invocation's error.
C9_ZeroMeansNoRetries ==
    cfg.retryMax = 0 =>
        /\ Invocations <= 1
        /\ (Returned /\ AllFailed /\ ctxErr = NilErr) =>
              (pc = "Exhausted" /\ err = OpErr(1))

\* C10: a failed invocation that brings the attempt count to retryMax > 0
\* ends the call at once: it is the last thing the call did, the call
\* returns that invocation's result and error, and no backoff, notifier call
\* or wait exists for that attempt; Exhausted is reached in no other way.
C10_ExhaustedWithoutWaiting ==
    /\ \A i \in FailedReturns :
         (cfg.retryMax > 0 /\ log[i].attempt >= cfg.retryMax) =>
            /\ i = Len(log)
            /\ pc = "Exhausted"
            /\ err = log[i].err
            /\ err = OpErr(log[i].attempt)
            /\ result = OpData(log[i].attempt)
            /\ \A j \in DOMAIN log :
                 log[j].attempt = log[i].attempt =>
                    log[j].ev \notin {"backoff", "notify", "wait", "elapsed"}
            /\ ~tickerC /\ remaining = 0
    /\ pc = "Exhausted" =>
         /\ Len(log) > 0
         /\ log[Len(log)].ev = "return"
         /\ log[Len(log)].err # NilErr
         /\ log[Len(log)].attempt = cfg.retryMax
         /\ cfg.retryMax > 0

C10_Witness ==
    /\ pc = "Exhausted" /\ cfg.notifier /\ cfg.retryMax = 2
    /\ Count("notify") = 1 /\ Count("backoff") = 1 /\ result = OpData(2)

\* ================================================================ options
\* the literals of the configuration RetryWithData starts from (durations
\* in seconds)
DefaultRetryMax     == 3
DefaultRetryWaitMin == 1
DefaultRetryWaitMax == 30

defaults ==
    [retryMax     |-> DefaultRetryMax,
     retryWaitMin |-> DefaultRetryWaitMin,
     retryWaitMax |-> DefaultRetryWaitMax,
     retryBackoff |-> "ExponentialWithDecorrelatedJitter",
     notifier     |-> FALSE]

\* an Option, as the field it assigns and the value it was built with
Option(field, n, s, b) == [field |-> field, n |-> n, s |-> s, b |-> b]

WithRetryMax(retryMax)         == Option("retryMax", retryMax, "", FALSE)
WithRetryWaitMin(retryWaitMin) == Option("retryWaitMin", retryWaitMin, "", FALSE)
WithRetryWaitMax(retryWaitMax) == Option("retryWaitMax", retryWaitMax, "", FALSE)
WithRetryBackoff(strategy)     == Option("retryBackoff", 0, strategy, FALSE)
WithNotifier(notifier)         == Option("notifier", 0, "", notifier)

Options ==
    { WithRetryMax(n) : n \in 0 .. MaxRetryMax }
    \cup { WithRetryWaitMin(d) : d \in 0 .. MaxWait }
    \cup { WithRetryWaitMax(d) : d \in 0 .. MaxWait + 1 }
    \cup { WithRetryBackoff(st) : st \in Strategies }
    \cup { WithNotifier(b) : b \in BOOLEAN }

\* an option that leaves alone a field an earlier option has already set
optionFirstWins(o, c) ==
    CASE o.field = "retryMax" /\ c.retryMax = defaults.retryMax ->
            [c EXCEPT !.retryMax = o.n]
      [] o.field = "retryWaitMin" /\ c.retryWaitMin = defaults.retryWaitMin ->
            [c EXCEPT !.retryWaitMin = o.n]
      [] o.field = "retryWaitMax" /\ c.retryWaitMax = defaults.retryWaitMax ->
            [c EXCEPT !.retryWaitMax = o.n]
      [] o.field = "retryBackoff" /\ c.retryBackoff = defaults.retryBackoff ->
            [c EXCEPT !.retryBackoff = o.s]
      [] o.field = "notifier" /\ c.notifier = defaults.notifier ->
            [c EXCEPT !.notifier = o.b]
      [] OTHER -> c

\* option(cfg): the assignment the option's closure makes
option(o, c) ==
    CASE o.field = "retryMax"     -> [c EXCEPT !.retryMax = o.n]
      [] o.field = "retryWaitMin" -> [c EXCEPT !.retryWaitMin = o.n]
      [] o.field = "retryWaitMax" -> [c EXCEPT !.retryWaitMax = o.n]
      [] o.field = "retryBackoff" -> [c EXCEPT !.retryBackoff = o.s]
      [] OTHER                    -> [c EXCEPT !.notifier = o.b]

\* for _, option := range options { option(cfg) }, from configuration c
RECURSIVE applyOptions(_, _)
applyOptions(c, os) ==
    IF os = <<>> THEN c ELSE applyOptions(option(Head(os), c), Tail(os))

OptionLists == UNION { [1 .. n -> Options] : n \in 0 .. MaxOptions }

\* RetryWithData has been called with a list of options and builds cfg
InitOptions ==
    /\ args \in [fn : {"RetryWithData"}, options : OptionLists]
    /\ out = <<>>
    /\ cfg = defaults
    /\ ctxKind = "Background"
    /\ timeout = -1
    /\ ttl = -1
    /\ ctxErr = NilErr
    /\ ctxCause = NilErr
    /\ doneAtCall = FALSE
    /\ pc = "Configuring"
    /\ attempt = 1
    /\ result = ZeroResult
    /\ err = NilErr
    /\ remaining = 0
    /\ tickerC = FALSE
    /\ log = <<>>

\* one iteration of the loop over the options
ApplyOption ==
    /\ pc = "Configuring"
    /\ Len(log) < Len(args.options)
    /\ cfg' = option(args.options[Len(log) + 1], cfg)
    /\ log' = Append(log, Event("option", Len(log) + 1, NilErr, 0))
    /\ UNCHANGED <<ctxVars, doneAtCall, pc, attempt, result, err, remaining,
                   tickerC, args, out>>

NextOptions == ApplyOption

SpecOptions == InitOptions /\ [][NextOptions]_vars

\* the value the last option for a field carries, the default without one
LastFor(field, os) ==
    LET is == { i \in DOMAIN os : os[i].field = field }
    IN  IF is = {} THEN <<>>
        ELSE <<os[CHOOSE i \in is : \A j \in is : j <= i]>>

OptionsApplied == pc = "Configuring" /\ Len(log) = Len(args.options)

\* C11: the policy of a call is the defaults overridden by its options in
\* call order: each field holds the value of the last option that sets it,
\* or its default (retryMax 3, retryWaitMin 1s, retryWaitMax 30s,
\* exponential with decorrelated jitter, no notifier); two options for
\* different fields commute, and an option given twice counts once.
C11_OptionsOverDefaults ==
    OptionsApplied =>
        LET os == args.options
            rm == LastFor("retryMax", os)
            mn == LastFor("retryWaitMin", os)
            mx == LastFor("retryWaitMax", os)
            bo == LastFor("retryBackoff", os)
            nt == LastFor("notifier", os)
        IN  /\ cfg.retryMax = IF rm = <<>> THEN 3 ELSE rm[1].n
            /\ cfg.retryWaitMin = IF mn = <<>> THEN 1 ELSE mn[1].n
            /\ cfg.retryWaitMax = IF mx = <<>> THEN 30 ELSE mx[1].n
            /\ cfg.retryBackoff = IF bo = <<>> THEN "ExponentialWithDecorrelatedJitter"
                                  ELSE bo[1].s
            /\ cfg.notifier = IF nt = <<>> THEN FALSE ELSE nt[1].b
            /\ (Len(os) = 2 /\ os[1].field # os[2].field) =>
                  cfg = applyOptions(defaults, <<os[2], os[1]>>)
            /\ (Len(os) = 2 /\ os[1] = os[2]) =>
                  cfg = applyOptions(defaults, <<os[1]>>)
            /\ cfg = applyOptions(defaults, os)

C11_Witness ==
    /\ OptionsApplied
    /\ Len(args.options) = 3
    /\ args.options[1] = WithRetryMax(1)
    /\ args.options[2] = WithNotifier(TRUE)
    /\ args.options[3] = WithRetryMax(2)
    /\ cfg.retryMax = 2 /\ cfg.notifier /\ cfg.retryWaitMax = 30

\* ================================================================= Retry
\* the log without the events of one kind
RECURSIVE Without(_, _)
Without(ev, l) ==
    IF l = <<>> THEN <<>>
    ELSE IF Head(l).ev = ev THEN Without(ev, Tail(l))
         ELSE <<Head(l)>> \o Without(ev, Tail(l))

\* l is what a call without notifier logs from the top of iteration n on:
\* the check of the signal, the invocation and its return, then for a
\* failure that leaves budget a delay of the strategy, the wait for exactly
\* that delay, and its end by the tick or by the signal
RECURSIVE LoopLog(_, _)
LoopLog(l, n) ==
    IF l = <<>> THEN TRUE
    ELSE IF l[1].ev = "canceled"
    THEN l = <<Event("canceled", n, l[1].err, 0)>>
         /\ l[1].err \in {Canceled, DeadlineExceeded}
    ELSE /\ l[1] = Event("invoke", n, NilErr, 0)
         /\ Len(l) > 1 =>
              /\ l[2].ev = "return" /\ l[2].attempt = n /\ l[2].d = 0
              /\ IF l[2].err = NilErr \/ budgetSpent(cfg, n)
                 THEN Len(l) = 2
                 ELSE /\ l[2].err = OpErr(n)
                      /\ Len(l) > 2
                      /\ l[3].ev = "backoff" /\ l[3].attempt = n
                      /\ l[3].d \in retryBackoff(cfg.retryBackoff, cfg.retryWaitMin,
                                                 cfg.retryWaitMax, n)
                      /\ IF l[3].d <= 0
                         THEN Len(l) = 3
                         ELSE /\ Len(l) > 3
                              /\ l[4] = Event("wait", n, NilErr, l[3].d)
                              /\ Len(l) > 4 =>
                                   /\ l[5].attempt = n
                                   /\ l[5].ev \in {"elapsed", "canceled"}
                                   /\ IF l[5].ev = "elapsed"
                                      THEN /\ l[5] = Event("elapsed", n, NilErr, 0)
                                           /\ LoopLog(SubSeq(l, 6, Len(l)), n + 1)
                                      ELSE /\ Len(l) = 5
                                           /\ l[5].d \in 0 .. l[3].d
                                           /\ l[5].err \in {Canceled, DeadlineExceeded,
                                                            CustomCause}

\* the error and the result a call holds after logging l
LastOutcome(l) ==
    LET is == { i \in DOMAIN l : l[i].ev \in {"return", "canceled"} }
    IN  IF is = {} THEN <<>> ELSE <<l[CHOOSE i \in is : \A j \in is : j <= i]>>

LastReturn(l) ==
    LET is == { i \in DOMAIN l : l[i].ev = "return" }
    IN  IF is = {} THEN <<>> ELSE <<l[CHOOSE i \in is : \A j \in is : j <= i]>>

\* C12: Retry is RetryWithData on the operation wrapped with an empty
\* result: every return of the wrapped operation hands on the error the
\* operation itself has just returned, for the same attempt, with the empty
\* struct as data; nothing else of the loop differs, and Retry returns
\* exactly the error RetryWithData returns (RetryWithData its result and
\* that error).
C12_RetryIsRetryWithData ==
    /\ args.fn = "Retry" =>
          /\ \A i \in Indices("return") :
                /\ i > 1
                /\ log[i - 1] = Event("op", log[i].attempt, log[i].err, 0)
          /\ \A i \in Indices("op") :
                /\ i < Len(log)
                /\ log[i + 1].ev = "return"
                /\ i > 1 /\ log[i - 1] = Event("invoke", log[i].attempt, NilErr, 0)
          /\ result \in {ZeroResult, EmptyData}
          /\ (Count("return") > 0) => result = EmptyData
          /\ (out # <<>>) => (Returned /\ out = <<err>>)
          /\ LoopLog(Without("notify", Without("op", log)), 1)
    /\ args.fn = "RetryWithData" =>
          /\ Count("op") = 0
          /\ (out # <<>>) => (Returned /\ out = <<result, err>>)

C12_Witness ==
    /\ args.fn = "Retry"
    /\ pc = "Exhausted"
    /\ Count("op") = 2
    /\ Count("wait") = 1
    /\ out = <<OpErr(2)>>

\* =============================================================== notifier
\* C13: the notifier is advisory only: with the notify events left out, the
\* log of a call that has a notifier is a log of the call without one (same
\* invocations with the same attempt numbers, same delays, same waits), the
\* error and the result the call holds are those of that log, and a call
\* without notifier logs no notify event.
C13_NotifierAdvisory ==
    LET l == Without("notify", Without("op", log))
        o == LastOutcome(l)
        r == LastReturn(l)
    IN  /\ LoopLog(l, 1)
        /\ err = IF o = <<>> THEN NilErr ELSE o[1].err
        /\ result = IF r = <<>> THEN ZeroResult ELSE OpData(r[1].attempt)
        /\ \A i \in Indices("notify") : cfg.notifier /\ log[i].d = log[i - 1].d
        /\ (~cfg.notifier) => Without("op", log) = l

C13_Witness ==
    /\ cfg.notifier
    /\ args.fn = "RetryWithData"
    /\ pc = "Succeeded"
    /\ Count("notify") = 2
    /\ Count("elapsed") = 2
    /\ Invocations = 3
    /\ result = OpData(3)
    /\ out = <<OpData(3), NilErr>>

\* ================================================================ backoff
\* a strategy is called with any triple of the duration word and a small
\* attempt number
BackoffCalls ==
    [fn       : Strategies,
     minDelay : MinInt64 .. MaxInt64,
     maxDelay : MinInt64 .. MaxInt64,
     attempt  : -1 .. MaxBackoffAttempt]

InitBackoff ==
    /\ args \in BackoffCalls
    /\ out = <<>>
    /\ cfg = defaults
    /\ ctxKind = "Background"
    /\ timeout = -1
    /\ ttl = -1
    /\ ctxErr = NilErr
    /\ ctxCause = NilErr
    /\ doneAtCall = FALSE
    /\ pc = "Calling"
    /\ attempt = 1
    /\ result = ZeroResult
    /\ err = NilErr
    /\ remaining = 0
    /\ tickerC = FALSE
    /\ log = <<>>

\* the strategy returns one of the delays its random draw allows
BackoffReturns ==
    /\ pc = "Calling"
    /\ out = <<>>
    /\ \E d \in retryBackoff(args.fn, args.minDelay, args.maxDelay, args.attempt) :
         out' = <<d>>
    /\ UNCHANGED <<cfg, ctxVars, doneAtCall, pc, attempt, result, err, remaining,
                   tickerC, log, args>>

NextBackoff == BackoffReturns

SpecBackoff == InitBackoff /\ [][NextBackoff]_vars

\* the call has returned delay out[1]
BackoffReturned == pc = "Calling" /\ out # <<>>

\* min * 2^attempt as a mathematical integer
Ideal(minDelay, n) == minDelay * Pow2(n)

ValidRange == 0 < args.minDelay /\ args.minDelay <= args.maxDelay

\* C14: for each of the four strategies, 0 < minDelay <= maxDelay and
\* attempt >= 0, every delay the strategy can return lies in
\* [minDelay, maxDelay].
C14_WithinMinMax ==
    (BackoffReturned /\ ValidRange /\ args.attempt >= 0) =>
        (args.minDelay <= out[1] /\ out[1] <= args.maxDelay)

\* C15: for every strategy and every triple of the duration and integer
\* domain, the returned delay is never negative and never above maxDelay
\* (read for a maxDelay that is not itself negative, where 0 is returned).
C15_NeverNegativeNeverAboveMax ==
    BackoffReturned =>
        /\ out[1] >= 0
        /\ args.maxDelay >= 0 => out[1] <= args.maxDelay

\* C16: for each of the four strategies, minDelay <= 0 or maxDelay <= 0 or
\* attempt < 0 gives exactly 0: the set of delays the strategy can return
\* is {0}, whatever the random draw.
C16_DegenerateIsZero ==
    (args.minDelay <= 0 \/ args.maxDelay <= 0 \/ args.attempt < 0) =>
        /\ retryBackoff(args.fn, args.minDelay, args.maxDelay, args.attempt) = {0}
        /\ BackoffReturned => out = <<0>>

C16_Witness ==
    /\ BackoffReturned
    /\ args.fn = "ExponentialWithFullJitter"
    /\ args.minDelay = 2 /\ args.maxDelay = 3 /\ args.attempt = -1
    /\ out = <<0>>

\* C17: for minDelay > 0, maxDelay > 0, attempt >= 0 with minDelay *
\* 2^attempt representable, Exponential returns exactly
\* min(minDelay * 2^attempt, maxDelay); from 1 with ceiling 8 that is
\* 1, 2, 4, 8 for attempts 0..3 and 8 again for attempt 4.
C17_ExponentialIsMinOfDoublingAndMax ==
    /\ (BackoffReturned /\ args.fn = "Exponential" /\ args.minDelay > 0
          /\ args.maxDelay > 0 /\ args.attempt >= 0
          /\ Ideal(args.minDelay, args.attempt) <= MaxInt64) =>
         out[1] = IF Ideal(args.minDelay, args.attempt) < args.maxDelay
                  THEN Ideal(args.minDelay, args.attempt) ELSE args.maxDelay
    /\ \A a \in 0 .. 3 : Exponential(1, 8, a) = {Pow2(a)}
    /\ Exponential(1, 8, 4) = {8}

C17_Witness ==
    /\ BackoffReturned
    /\ args.fn = "Exponential"
    /\ args.minDelay = 3 /\ args.maxDelay = 13 /\ args.attempt = 2
    /\ out = <<12>>

\* C18: overflow protection: for each of the four strategies and positive
\* minDelay <= maxDelay, whenever minDelay * 2^attempt, or that base plus
\* its jitter, exceeds the largest duration, the strategy returns exactly
\* maxDelay; it never returns a wrapped-around or negative value.
C18_OverflowProtection ==
    (BackoffReturned /\ ValidRange /\ args.attempt >= 0) =>
        /\ out[1] >= 0
        /\ Ideal(args.minDelay, args.attempt) > MaxInt64 => out[1] = args.maxDelay
        /\ (args.fn = "ExponentialWithEqualJitter"
              /\ Ideal(args.minDelay, args.attempt) <= MaxInt64
              /\ Ideal(args.minDelay, args.attempt)
                   + GoDiv(Ideal(args.minDelay, args.attempt), 2) > MaxInt64) =>
             out[1] = args.maxDelay

\* C19: for each of the four strategies, attempt >= 0 and
\* minDelay > maxDelay > 0, the returned delay is exactly maxDelay.
C19_MinAboveMaxGivesMax ==
    (BackoffReturned /\ args.attempt >= 0 /\ args.minDelay > args.maxDelay
       /\ args.maxDelay > 0) =>
        out[1] = args.maxDelay

\* C20: for each of the four strategies and 0 < minDelay <= maxDelay, the
\* delay for attempt 0 is exactly minDelay, whatever the random draw.
C20_AttemptZeroGivesMin ==
    (BackoffReturned /\ ValidRange /\ args.attempt = 0) =>
        /\ out[1] = args.minDelay
        /\ retryBackoff(args.fn, args.minDelay, args.maxDelay, 0) = {args.minDelay}

\* ================================================================= jitter
Durations == MinInt64 .. MaxInt64

\* a jitter function is called with any durations of the word
JitterCalls ==
    [fn : {"Equal", "Full"}, backoff : Durations,
     minDelay : {0}, maxDelay : {0}, previous : {0}]
    \cup [fn : {"Decorrelated"}, backoff : {0},
          minDelay : Durations, maxDelay : Durations, previous : Durations]

\* the values the called function can return, by the state of the random
\* source
jitterWhen(a, fails) ==
    CASE a.fn = "Equal" -> EqualWhen(a.backoff, fails)
      [] a.fn = "Full"  -> FullWhen(a.backoff, fails)
      [] OTHER -> DecorrelatedWhen(a.minDelay, a.maxDelay, a.previous, fails)

InitJitter ==
    /\ args \in JitterCalls
    /\ out = <<>>
    /\ cfg = defaults
    /\ ctxKind = "Background"
    /\ timeout = -1
    /\ ttl = -1
    /\ ctxErr = NilErr
    /\ ctxCause = NilErr
    /\ doneAtCall = FALSE
    /\ pc = "Drawing"
    /\ attempt = 1
    /\ result = ZeroResult
    /\ err = NilErr
    /\ remaining = 0
    /\ tickerC = FALSE
    /\ log = <<>>

\* the function returns jitter out[1]; out[2] tells whether rand.Int failed
JitterReturns ==
    /\ pc = "Drawing"
    /\ out = <<>>
    /\ \E fails \in BOOLEAN :
         \E j \in jitterWhen(args, fails) : out' = <<j, fails>>
    /\ UNCHANGED <<cfg, ctxVars, doneAtCall, pc, attempt, result, err, remaining,
                   tickerC, log, args>>

NextJitter == JitterReturns

SpecJitter == InitJitter /\ [][NextJitter]_vars

JitterReturned == pc = "Drawing" /\ out # <<>>

Min2(a, b) == IF a < b THEN a ELSE b

\* minDelay * 2^attempt of the call, as a mathematical integer
Base == Ideal(args.minDelay, args.attempt)

\* C21: for the equal-jitter and full-jitter strategies, every attempt >= 0
\* (0 included) and 0 < minDelay <= maxDelay, the result is
\* min(maxDelay, base + J(base)) with base = minDelay * 2^attempt: at least
\* min(maxDelay, base + base/2) for equal jitter, at least min(maxDelay, base)
\* for full jitter, and at most min(maxDelay, 2 * base).
C21_JitteredIsBasePlusJitter ==
    (BackoffReturned /\ ValidRange /\ args.attempt >= 0
       /\ args.fn \in {"ExponentialWithEqualJitter", "ExponentialWithFullJitter"}) =>
        /\ out[1] <= Min2(args.maxDelay, 2 * Base)
        /\ args.fn = "ExponentialWithEqualJitter" =>
              out[1] >= Min2(args.maxDelay, Base + GoDiv(Base, 2))
        /\ args.fn = "ExponentialWithFullJitter" =>
              out[1] >= Min2(args.maxDelay, Base)

\* C22: for the decorrelated-jitter strategy, 0 < minDelay <= maxDelay and
\* attempt >= 1, with base = minDelay * 2^attempt and previous =
\* minDelay * 2^(attempt-1), every result d satisfies
\* min(base, maxDelay) <= d <= min(maxDelay, base + minDelay + 3 * previous).
C22_DecorrelatedBounds ==
    (BackoffReturned /\ ValidRange /\ args.attempt >= 1
       /\ args.fn = "ExponentialWithDecorrelatedJitter") =>
        /\ Min2(Base, args.maxDelay) <= out[1]
        /\ out[1] <= Min2(args.maxDelay,
                          Base + args.minDelay
                          + 3 * Ideal(args.minDelay, args.attempt - 1))

\* C23: Exponential is non-decreasing in the attempt number: for
\* 0 < minDelay <= maxDelay and 0 <= a <= b, the overflow short-circuit
\* included, the delay for a is at most the delay for b, and once the delay
\* is maxDelay it is maxDelay for every larger attempt.
C23_ExponentialNonDecreasing ==
    (BackoffReturned /\ ValidRange /\ args.attempt >= 0 /\ args.fn = "Exponential") =>
        \A a \in 0 .. args.attempt :
            \A x \in Exponential(args.minDelay, args.maxDelay, a) :
                /\ x <= out[1]
                /\ x = args.maxDelay => out[1] = args.maxDelay

C23_Witness ==
    /\ BackoffReturned
    /\ args.fn = "Exponential"
    /\ args.minDelay = 1 /\ args.maxDelay = MaxInt64
    /\ Doubling(1, args.attempt).capped
    /\ Exponential(1, MaxInt64, args.attempt - 2) = {GoDiv(MaxInt64, 2) + 1}
    /\ out = <<MaxInt64>>

\* C24 as stated: for every base > 0 and every outcome of the draw,
\* jitter.Equal(base) returns j with base/2 <= j < base.
C24_EqualBelowBase ==
    (JitterReturned /\ args.fn = "Equal" /\ args.backoff > 0) =>
        (GoDiv(args.backoff, 2) <= out[1] /\ out[1] < args.backoff)

\* C24: for every base > 0, jitter.Equal(base) returns j = base/2 + r with
\* base/2 <= j <= base (integer division); r is in [0, base/2) and j < base
\* when the random source delivers, and r = base/2, j = 2 * (base/2) when it
\* fails.
C24_EqualRange ==
    (JitterReturned /\ args.fn = "Equal" /\ args.backoff > 0) =>
        LET midpoint == GoDiv(args.backoff, 2)
        IN  /\ midpoint <= out[1] /\ out[1] <= args.backoff
            /\ (~out[2]) => out[1] < args.backoff
            /\ (~out[2] /\ midpoint > 0) => out[1] - midpoint \in 0 .. midpoint - 1
            /\ out[2] => out[1] = 2 * midpoint

C24_Witness ==
    /\ JitterReturned /\ args.fn = "Equal"
    /\ args.backoff = 6
    /\ out = <<6, TRUE>>

C26_EqualOfNonPositiveIsZero ==
    (JitterReturned /\ args.fn = "Equal" /\ args.backoff <= 0) => out[1] = 0

\* C27: jitter.Decorrelated returns exactly 0 whenever minDelay < 0, or
\* maxDelay < 0, or minDelay > maxDelay, for every previous.
C27_DecorrelatedGuards ==
    (JitterReturned /\ args.fn = "Decorrelated"
       /\ (args.minDelay < 0 \/ args.maxDelay < 0 \/ args.minDelay > args.maxDelay)) =>
        out[1] = 0

\* C28: for 0 <= minDelay <= maxDelay and previous > 0 with 3 * previous
\* representable, jitter.Decorrelated returns j with
\* minDelay <= j <= maxDelay and j <= minDelay + 3 * previous for every
\* outcome of the draw, and exactly minDelay when minDelay = maxDelay.
C28_DecorrelatedRange ==
    (JitterReturned /\ args.fn = "Decorrelated"
       /\ 0 <= args.minDelay /\ args.minDelay <= args.maxDelay
       /\ args.previous > 0 /\ 3 * args.previous <= MaxInt64) =>
        /\ args.minDelay <= out[1] /\ out[1] <= args.maxDelay
        /\ out[1] <= args.minDelay + 3 * args.previous
        /\ args.minDelay = args.maxDelay => out[1] = args.minDelay

\* C30: jitter.Decorrelated treats every previous <= 0 as minDelay: for
\* 0 < minDelay <= maxDelay and previous <= 0 the values it can return are
\* those it can return for previous = minDelay.
C30_NonPositivePreviousIsMinDelay ==
    (JitterReturned /\ args.fn = "Decorrelated" /\ 0 < args.minDelay
       /\ args.minDelay <= args.maxDelay /\ args.previous <= 0) =>
        \A fails \in BOOLEAN :
            DecorrelatedWhen(args.minDelay, args.maxDelay, args.previous, fails)
            = DecorrelatedWhen(args.minDelay, args.maxDelay, args.minDelay, fails)

\* the errors a call of the loop can hold: nil, the operation's, the signal's
LoopErrors ==
    {NilErr, Canceled, DeadlineExceeded, CustomCause}
    \cup { OpErr(n) : n \in 1 .. MaxAttempt }

\* C29: when the random source fails, the draw for a bound m > 0 is m itself
\* and not an error; the strategies still return a duration, no failure of
\* the random source becomes the error of Retry or RetryWithData, and none
\* stops the retry loop: where a working source gives only delays the loop
\* can wait for, a failing source does so too.
C29_RandFailureNeverSurfaces ==
    /\ \A m \in 1 .. MaxInt64 : getRandomDurationWhen(m, TRUE) = {m}
    /\ err \in LoopErrors
    /\ pc = "Panicked" =>
          \/ log[Len(log)].d \in retryBackoffWhen(cfg.retryBackoff, cfg.retryWaitMin,
                                                  cfg.retryWaitMax, attempt, FALSE)
          \/ \E b \in retryBackoffWhen(cfg.retryBackoff, cfg.retryWaitMin,
                                       cfg.retryWaitMax, attempt, FALSE) : b <= 0

\* C31: for 0 < minDelay <= maxDelay and every previous whose triple
\* exceeds the largest duration, the largest duration itself included,
\* jitter.Decorrelated returns exactly maxDelay for every outcome of the
\* draw, never a value below minDelay or a negative one.
C31_DecorrelatedOverflowGivesMax ==
    (JitterReturned /\ args.fn = "Decorrelated"
       /\ 0 < args.minDelay /\ args.minDelay <= args.maxDelay
       /\ args.previous > 0 /\ 3 * args.previous > MaxInt64) =>
        out[1] = args.maxDelay

\* ====================================================== range-based loop
\* backoff.Exponential of the earlier backoff package, the default strategy
\* of the range-based loop: the product is computed in floating point and
\* converted; a product outside the duration word converts to a value the
\* language does not fix
ExponentialFloat(minDelay, maxDelay, n) ==
    LET product == minDelay * Pow2(n)
    IN  { Clamp(b, maxDelay)
          : b \in IF product > MaxInt64 THEN Durations ELSE {product} }

\* the Configuration of the range-based loop, its strategy left at the
\* default
Configuration ==
    [maxRetries : -1 .. MaxRetryMax,
     minDelay   : 0 .. MaxWait,
     maxDelay   : 0 .. MaxWait + 1,
     notifier   : BOOLEAN]

InitRange ==
    /\ args = [fn |-> "RetryWithData"]
    /\ out = <<>>
    /\ cfg \in Configuration
    /\ ctxKind \in CtxKinds
    /\ timeout \in IF ctxKind = "WithTimeout" THEN 0 .. MaxTimeout ELSE {-1}
    /\ ttl = timeout
    /\ ctxErr \in CASE ctxKind = "Background"  -> {NilErr}
                    [] ctxKind = "WithTimeout" ->
                          IF ttl = 0 THEN {DeadlineExceeded} ELSE {NilErr}
                    [] OTHER -> {NilErr, Canceled}
    /\ ctxCause = IF ctxErr = Canceled /\ ctxKind = "WithCancelCause"
                  THEN CustomCause ELSE ctxErr
    /\ doneAtCall = (ctxErr # NilErr)
    /\ pc = "Ready"
    /\ attempt = 0
    /\ result = ZeroResult
    /\ err = NilErr
    /\ remaining = 0
    /\ tickerC = FALSE
    /\ log = <<>>

\* `for attempt := range cfg.maxRetries` and the select at the top of its
\* body; the loop running out falls through to the final return
RangeCheck ==
    /\ pc = "Ready"
    /\ IF attempt >= cfg.maxRetries
       THEN /\ pc' = "Exhausted"
            /\ log' = Append(log, Event("fallthrough", attempt, err, 0))
            /\ UNCHANGED err
       ELSE IF ctxErr # NilErr
       THEN /\ err' = ctxErr
            /\ pc' = "Canceled"
            /\ log' = Append(log, Event("canceled", attempt, ctxErr, 0))
       ELSE /\ pc' = "Invoking"
            /\ log' = Append(log, Event("invoke", attempt, NilErr, 0))
            /\ UNCHANGED err
    /\ UNCHANGED <<cfg, ctxVars, doneAtCall, attempt, result, remaining, tickerC,
                   args, out>>

\* operation() returns; every failure is followed by backoff, notifier and
\* time.NewTicker(b), the last one of the range too
RangeOperationReturns ==
    /\ pc = "Invoking"
    /\ \E ok \in BOOLEAN :
         LET e == IF ok THEN NilErr ELSE OpErr(attempt)
             returned == Append(log, Event("return", attempt, e, 0))
         IN  /\ result' = OpData(attempt)
             /\ err' = e
             /\ IF ok
                THEN /\ pc' = "Succeeded"
                     /\ log' = returned
                     /\ UNCHANGED <<remaining, tickerC>>
                ELSE \E b \in ExponentialFloat(cfg.minDelay, cfg.maxDelay, attempt) :
                       /\ log' = returned \o afterFailure(e, b)
                       /\ pc' = IF b > 0 THEN "AwaitingBackoff" ELSE "Panicked"
                       /\ remaining' = IF b > 0 THEN b ELSE remaining
                       /\ tickerC' = FALSE
    /\ UNCHANGED <<cfg, ctxVars, doneAtCall, attempt, args, out>>

\* the select on ticker.C and ctx.Done(); the signal's error is ctx.Err()
RangeWaitSelect ==
    /\ pc = "AwaitingBackoff"
    /\ \/ /\ tickerC
          /\ tickerC' = FALSE
          /\ remaining' = 0
          /\ attempt' = attempt + 1
          /\ pc' = "Ready"
          /\ log' = Append(log, Event("elapsed", attempt, NilErr, remaining))
          /\ UNCHANGED err
       \/ /\ ctxErr # NilErr
          /\ tickerC' = FALSE
          /\ remaining' = 0
          /\ err' = ctxErr
          /\ pc' = "Canceled"
          /\ log' = Append(log, Event("canceled", attempt, ctxErr, remaining))
          /\ UNCHANGED attempt
    /\ UNCHANGED <<cfg, ctxVars, doneAtCall, result, args, out>>

NextRange ==
    Cancel \/ Tick \/ RangeCheck \/ RangeOperationReturns \/ RangeWaitSelect \/ Return

SpecRange == InitRange /\ [][NextRange]_vars

\* C32: in the range-based loop, when the operation fails on all
\* N = maxRetries invocations, the call returns the N-th invocation's error
\* unchanged and without a further wait; a signal that fires only after the
\* N-th invocation has returned does not change the returned error.
C32_RangeLastErrorUnchanged ==
    (Returned /\ cfg.maxRetries >= 1 /\ Invocations = cfg.maxRetries
       /\ Failures = cfg.maxRetries) =>
        /\ err = OpErr(cfg.maxRetries - 1)
        /\ \A i \in Indices("wait") : log[i].attempt # cfg.maxRetries - 1

\* C33: in the range-based loop, for every maxRetries, 0 and negative
\* values included, a nil error is returned only if some invocation
\* returned a nil error; the call never returns the zero result with a nil
\* error without having invoked the operation.
C33_RangeNilOnlyOnSuccess ==
    (Returned /\ err = NilErr) =>
        /\ \E i \in Indices("return") : log[i].err = NilErr
        /\ Invocations > 0

\* ------------------------------------------ the counter-based loop, again
BackoffEvents == SelectSeq(log, LAMBDA e : e.ev = "backoff")

\* C34: in the counter-based loop the backoff function is called once per
\* failed invocation that leaves budget, in order, and the k-th call is
\* made for the k-th failure with (retryWaitMin, retryWaitMax, k),
\* k = 1, 2, 3, ...: the attempt passed is 1-based and never 0; under
\* Exponential() the first wait therefore lasts
\* min(2 * retryWaitMin, retryWaitMax), not retryWaitMin.
C34_BackoffArguments ==
    /\ Len(BackoffEvents) =
          Cardinality({ i \in FailedReturns : ~budgetSpent(cfg, log[i].attempt) })
    /\ \A k \in 1 .. Len(BackoffEvents) :
          /\ BackoffEvents[k].attempt = k
          /\ BackoffEvents[k].d \in retryBackoff(cfg.retryBackoff, cfg.retryWaitMin,
                                                 cfg.retryWaitMax, k)
    /\ \A i \in Indices("backoff") :
          /\ i > 1
          /\ log[i - 1].ev = "return" /\ log[i - 1].err # NilErr
          /\ log[i - 1].attempt = log[i].attempt
          /\ log[i].attempt >= 1
    /\ cfg.retryBackoff = "Exponential" =>
          \A i \in Indices("wait") :
              log[i].attempt = 1 =>
                  log[i].d = Min2(2 * cfg.retryWaitMin, cfg.retryWaitMax)

C34_Witness ==
    /\ cfg.retryBackoff = "Exponential"
    /\ cfg.retryWaitMin = 1 /\ cfg.retryWaitMax = 3
    /\ Len(BackoffEvents) >= 2
    /\ \E i \in Indices("wait") : log[i].attempt = 1 /\ log[i].d = 2

C36_NeverAbortsAtWait ==
    (cfg.retryWaitMin >= 0 /\ cfg.retryWaitMax >= 0) =>
        /\ pc # "Panicked"
        /\ \A i \in Indices("backoff") : log[i].d > 0

\* C37: for a cancellation signal that carries a specific cause, different
\* from the generic canceled and deadline errors, the counter-based loop
\* returns the same error value wherever it observes the cancellation: the
\* select before an invocation returns what the select of the wait returns,
\* the signal's cause.
C37_SameErrorAtCheckAndWait ==
    (pc = "Canceled" /\ ctxCause = CustomCause) => err = CustomCause

\* the counter-based loop when it is scheduled: time advances, every
\* invocation returns, and a select with a ready case is taken
SpecFair ==
    /\ Spec
    /\ WF_vars(Tick)
    /\ WF_vars(Check)
    /\ WF_vars(OperationReturns)
    /\ WF_vars(WaitSelect)
    /\ WF_vars(Return)

\* C38: in the counter-based loop with retryMax = N > 0 the operation is
\* never invoked more than N times and, every invocation returning and
\* every armed ticker firing, the call eventually reaches a terminal state
\* (Succeeded, Exhausted or Canceled), however the operation behaves and
\* even if the signal never fires.
C38_BoundedAndTerminates ==
    cfg.retryMax > 0 => ([](Invocations <= cfg.retryMax) /\ <>Returned)

\* the signal has fired while the invocation of this attempt is in flight:
\* the select before it found the signal silent
FiredInFlight == pc = "Invoking" /\ ctxErr # NilErr

\* the return event a step has added to the log
Outcome == log'[CHOOSE i \in Len(log) + 1 .. Len(log') : log'[i].ev = "return"]

C39_Step ==
    /\ (pc = "Invoking" /\ ctxErr = NilErr /\ ctxErr' # NilErr) =>
          /\ pc' = "Invoking"
          /\ UNCHANGED <<result, err, log, attempt>>
    /\ (FiredInFlight /\ pc' # "Invoking") =>
          /\ Outcome.attempt = attempt
          /\ err' = Outcome.err
          /\ Outcome.err = NilErr =>
                /\ pc' = "Succeeded"
                /\ result' = IF args.fn = "Retry" THEN EmptyData
                              ELSE OpData(attempt)
          /\ (Outcome.err # NilErr /\ budgetSpent(cfg, attempt)) =>
                /\ pc' = "Exhausted"
                /\ err' = OpErr(attempt)
          /\ (Outcome.err # NilErr /\ ~budgetSpent(cfg, attempt)) =>
                pc' \in {"AwaitingBackoff", "Panicked"}
    /\ (ctxErr # NilErr /\ pc \in {"AwaitingBackoff", "Ready"}) =>
          /\ pc' \in {"AwaitingBackoff", "Ready", "Canceled"}
          /\ Invocations' = Invocations
          /\ pc' = "Canceled" => err' \in {ctxErr, ctxCause}
    /\ (pc \in {"Succeeded", "Exhausted"} /\ out' # out) =>
          /\ out'[Len(out')] = err
          /\ args.fn = "RetryWithData" => out'[1] = result

====
